---------------------------- MODULE Spec2Model ----------------------------
(***************************************************************************)
(* A model of todo_list.py: the class TodoList (an in-memory list of task  *)
(* labels with add_task, remove_task and show_tasks) and the script under  *)
(* `if __name__ == "__main__"`.  The module is either run as a script, and *)
(* then executes lines 22..27, or imported, and then a client calls the    *)
(* three methods in any order.                                             *)
(***************************************************************************)
EXTENDS Naturals, Sequences, FiniteSets

(* The task labels the methods are called with: the two of the script and  *)
(* a third one.                                                            *)
Tasks == {"Buy groceries", "Pay bills", "Call mom"}

(* The number of method calls an importing client makes.                   *)
MaxCalls == 5

VARIABLES
    tasks,   \* self.tasks, the list of task labels
    stdout,  \* the lines printed so far
    exc,     \* the uncaught exception that ended the program, or "none"
    pc,      \* the line the script is at; "imported" when the module is imported
    calls    \* the method calls made so far: [op, args, printed]

vars == <<tasks, stdout, exc, pc, calls>>

---------------------------------------------------------------------------
(* Python's list operations, as CPython computes them.                     *)

(* x in l: a scan from the front, comparing each element with x.           *)
RECURSIVE ListContains(_, _)
ListContains(l, x) ==
    IF l = <<>> THEN FALSE
    ELSE IF Head(l) = x THEN TRUE
    ELSE ListContains(Tail(l), x)

(* The index (from 1) of the first element of l equal to x, scanning from  *)
(* position i; 0 when there is none.                                       *)
RECURSIVE ListFind(_, _, _)
ListFind(l, x, i) ==
    IF i > Len(l) THEN 0
    ELSE IF l[i] = x THEN i
    ELSE ListFind(l, x, i + 1)

(* del l[i]: the elements before i, then the elements after i.             *)
ListDelete(l, i) == SubSeq(l, 1, i - 1) \o SubSeq(l, i + 1, Len(l))

(* A variant of list.remove that deletes every element equal to x.         *)
ListRemoveAll(l, x) == SelectSeq(l, LAMBDA e : e # x)

(* l.remove(x): l without its first element equal to x.  Defined when x is *)
(* in l; list.remove raises ValueError otherwise (see list_remove).        *)
ListRemove(l, x) == ListDelete(l, ListFind(l, x, 1))

(* l.append(x) *)
ListAppend(l, x) == l \o <<x>>

(* The lines `for task in l: print(f"- {task}")` prints.                   *)
RECURSIVE PrintEach(_)
PrintEach(l) ==
    IF l = <<>> THEN <<>>
    ELSE <<"- " \o Head(l)>> \o PrintEach(Tail(l))

---------------------------------------------------------------------------
(* The methods of TodoList.                                                *)

(* print(line) *)
print(line) == stdout' = Append(stdout, line)

(* self.tasks.remove(task), which raises ValueError when task is absent.   *)
list_remove(task) ==
    IF ListFind(tasks, task, 1) = 0
    THEN exc' = "ValueError" /\ UNCHANGED tasks
    ELSE exc' = "none" /\ tasks' = ListRemove(tasks, task)

(* A variant of add_task that inserts the task at the front.               *)
add_task_front(task) ==
    /\ tasks' = <<task>> \o tasks
    /\ print("Added task: " \o task)
    /\ exc' = "none"

(* A variant of add_task that skips a task already in the list.            *)
add_task_unique(task) ==
    /\ tasks' = IF ListContains(tasks, task) THEN tasks ELSE ListAppend(tasks, task)
    /\ print("Added task: " \o task)
    /\ exc' = "none"

add_task(task) ==
    /\ tasks' = ListAppend(tasks, task)
    /\ print("Added task: " \o task)
    /\ exc' = "none"

(* A variant of remove_task without the membership test.                   *)
remove_task_unguarded(task) ==
    /\ list_remove(task)
    /\ IF exc' = "none"
       THEN print("Removed task: " \o task)
       ELSE UNCHANGED stdout

remove_task(task) ==
    IF ListContains(tasks, task)
    THEN /\ list_remove(task)
         /\ IF exc' = "none"
            THEN print("Removed task: " \o task)
            ELSE UNCHANGED stdout
    ELSE /\ print("Task not found: " \o task)
         /\ exc' = "none"
         /\ UNCHANGED tasks

(* A variant of show_tasks that consumes the list while printing it.       *)
show_tasks_drain ==
    /\ stdout' = Append(stdout, "Todo List:") \o PrintEach(tasks)
    /\ tasks' = <<>>
    /\ exc' = "none"

(* A variant of show_tasks that prints the list from the back.             *)
show_tasks_reversed ==
    /\ stdout' = Append(stdout, "Todo List:")
                   \o PrintEach([i \in 1..Len(tasks) |-> tasks[Len(tasks) + 1 - i]])
    /\ exc' = "none"
    /\ UNCHANGED tasks

show_tasks ==
    /\ stdout' = Append(stdout, "Todo List:") \o PrintEach(tasks)
    /\ exc' = "none"
    /\ UNCHANGED tasks

(* A call of method op with arguments args, logged with the lines it       *)
(* printed.                                                                *)
Invoke(op, args) ==
    /\ exc = "none"
    /\ CASE op = "add_task"    -> add_task(args[1])
         [] op = "remove_task" -> remove_task(args[1])
         [] op = "show_tasks"  -> show_tasks
    /\ calls' = Append(calls, [op |-> op, args |-> args,
                               printed |-> SubSeq(stdout', Len(stdout) + 1, Len(stdout'))])

---------------------------------------------------------------------------
(* The script, one action per line; todo = TodoList() of line 22 gives the *)
(* initial state.                                                          *)

Main23 == pc = "line23" /\ Invoke("add_task", <<"Buy groceries">>) /\ pc' = "line24"
Main24 == pc = "line24" /\ Invoke("add_task", <<"Pay bills">>) /\ pc' = "line25"
Main25 == pc = "line25" /\ Invoke("show_tasks", <<>>) /\ pc' = "line26"
Main26Wrong == pc = "line26" /\ Invoke("remove_task", <<"Buy groceries">>) /\ pc' = "line27"
Main26 == pc = "line26" /\ Invoke("remove_task", <<"Pay bills">>) /\ pc' = "line27"
Main27 == pc = "line27" /\ Invoke("show_tasks", <<>>) /\ pc' = "exit"

Main == Main23 \/ Main24 \/ Main25 \/ Main26 \/ Main27

(* The calls of a client that imported the module.                         *)
ClientAdd ==
    /\ pc = "imported" /\ Len(calls) < MaxCalls
    /\ \E t \in Tasks : Invoke("add_task", <<t>>)
    /\ UNCHANGED pc

ClientRemove ==
    /\ pc = "imported" /\ Len(calls) < MaxCalls
    /\ \E t \in Tasks : Invoke("remove_task", <<t>>)
    /\ UNCHANGED pc

ClientShow ==
    /\ pc = "imported" /\ Len(calls) < MaxCalls
    /\ Invoke("show_tasks", <<>>)
    /\ UNCHANGED pc

(* TodoList.__init__: an empty list; nothing printed, no call made.        *)
Init ==
    /\ tasks = <<>>
    /\ stdout = <<>>
    /\ exc = "none"
    /\ calls = <<>>
    /\ pc \in {"line23", "imported"}

Next == Main23 \/ Main24 \/ Main25 \/ Main26 \/ Main27
        \/ ClientAdd \/ ClientRemove \/ ClientShow

Spec == Init /\ [][Next]_vars

(* The interpreter runs the script's statements one after the other.       *)
SpecMain == Init /\ [][Next]_vars /\ WF_vars(Main)

---------------------------------------------------------------------------
(* Vocabulary of the properties.                                           *)

(* The number of elements of l equal to x.                                 *)
RECURSIVE Count(_, _)
Count(l, x) ==
    IF l = <<>> THEN 0
    ELSE (IF Head(l) = x THEN 1 ELSE 0) + Count(Tail(l), x)

(* Whether a is b with some elements left out, the rest in b's order.      *)
RECURSIVE IsSubseq(_, _)
IsSubseq(a, b) ==
    IF a = <<>> THEN TRUE
    ELSE IF b = <<>> THEN FALSE
    ELSE IF Head(a) = Head(b) THEN IsSubseq(Tail(a), Tail(b))
    ELSE IsSubseq(a, Tail(b))

(* The step is a call of method op.                                        *)
Calls(op) == Len(calls') = Len(calls) + 1 /\ calls'[Len(calls')].op = op

(* The step is a call op(t).                                               *)
CallsWith(op, t) == Calls(op) /\ calls'[Len(calls')].args = <<t>>

(* The lines the call of this step printed.                                *)
Printed == calls'[Len(calls')].printed

(* The last call made was op(t).                                           *)
LastWas(op, t) ==
    /\ calls # <<>>
    /\ calls[Len(calls)].op = op
    /\ calls[Len(calls)].args = <<t>>

(* The arguments of the add_task calls made so far, in call order.         *)
RECURSIVE AddedUpTo(_)
AddedUpTo(n) ==
    IF n = 0 THEN <<>>
    ELSE IF calls[n].op = "add_task" THEN Append(AddedUpTo(n - 1), calls[n].args[1])
    ELSE AddedUpTo(n - 1)

Added == AddedUpTo(Len(calls))

(* The number of remove_task(t) calls so far that printed "Removed task".  *)
Removed(t) ==
    Cardinality({i \in 1..Len(calls) :
        /\ calls[i].op = "remove_task"
        /\ calls[i].args = <<t>>
        /\ calls[i].printed = <<"Removed task: " \o t>>})

NoRemoveCalled == \A i \in 1..Len(calls) : calls[i].op # "remove_task"

---------------------------------------------------------------------------
(* C1: remove_task(t) of a task t that is in the list deletes the element  *)
(* at the lowest index holding t and nothing else: the list is one shorter,*)
(* the elements before that index keep their place, the elements after it  *)
(* (later occurrences of t included) move up by one, and the one line      *)
(* printed is "Removed task: t".                                           *)
RemoveDeletesFirstOccurrence ==
    [][\A t \in Tasks :
        (CallsWith("remove_task", t) /\ \E k \in 1..Len(tasks) : tasks[k] = t) =>
            \E i \in 1..Len(tasks) :
                /\ tasks[i] = t
                /\ \A j \in 1..(i - 1) : tasks[j] # t
                /\ Len(tasks') = Len(tasks) - 1
                /\ \A j \in 1..(i - 1) : tasks'[j] = tasks[j]
                /\ \A j \in i..Len(tasks') : tasks'[j] = tasks[j + 1]
                /\ Printed = <<"Removed task: " \o t>>
                /\ exc' = "none"]_vars

(* A removal has just taken the first of two occurrences, with another     *)
(* task between them: the later occurrence is still in the list.           *)
RemovedFirstOfTwo ==
    /\ LastWas("remove_task", "Pay bills")
    /\ calls[Len(calls)].printed = <<"Removed task: Pay bills">>
    /\ tasks = <<"Call mom", "Pay bills">>
    /\ Added = <<"Pay bills", "Call mom", "Pay bills">>

(* C2: remove_task(t) of a task t that is not in the list leaves the list  *)
(* as it was, raises nothing, and prints the one line "Task not found: t". *)
RemoveAbsentLeavesList ==
    [][\A t \in Tasks :
        (CallsWith("remove_task", t) /\ \A k \in 1..Len(tasks) : tasks[k] # t) =>
            /\ tasks' = tasks
            /\ exc' = "none"
            /\ Printed = <<"Task not found: " \o t>>]_vars

(* A removal of an absent task has just been reported, on a list that      *)
(* holds other tasks.                                                      *)
RemovedAbsent ==
    /\ LastWas("remove_task", "Call mom")
    /\ calls[Len(calls)].printed = <<"Task not found: Call mom">>
    /\ Len(tasks) >= 2

(* C3: add_task(t) appends: the list is one longer, its last element is t, *)
(* the elements it had keep their positions, nothing is raised and the one *)
(* line printed is "Added task: t".                                        *)
AddAppendsAtEnd ==
    [][\A t \in Tasks :
        CallsWith("add_task", t) =>
            /\ Len(tasks') = Len(tasks) + 1
            /\ tasks'[Len(tasks')] = t
            /\ \A j \in 1..Len(tasks) : tasks'[j] = tasks[j]
            /\ exc' = "none"
            /\ Printed = <<"Added task: " \o t>>]_vars

(* A task has just been added behind two different ones.                   *)
AddedBehindOthers ==
    /\ LastWas("add_task", "Call mom")
    /\ tasks = <<"Buy groceries", "Pay bills", "Call mom">>

(* C4: as long as remove_task was never called, the list is the sequence   *)
(* of the added tasks in call order, so its length is the number of adds.  *)
AddsOnlyListIsAdds ==
    NoRemoveCalled => (tasks = Added /\ Len(tasks) = Len(Added))

(* Four adds and no remove, one task added twice.                          *)
FourAddsNoRemove ==
    /\ NoRemoveCalled
    /\ Len(Added) = 4
    /\ Count(Added, "Pay bills") = 2

(* C5: show_tasks leaves the list as it was, and a show_tasks that follows *)
(* a show_tasks directly prints the same lines as that one.                *)
ShowIsPureAndIdempotent ==
    [][Calls("show_tasks") =>
        /\ tasks' = tasks
        /\ (calls # <<>> /\ calls[Len(calls)].op = "show_tasks")
              => Printed = calls[Len(calls)].printed]_vars

(* Two listings in a row of a list of two tasks.                           *)
ShownTwice ==
    /\ Len(calls) >= 2
    /\ calls[Len(calls)].op = "show_tasks"
    /\ calls[Len(calls) - 1].op = "show_tasks"
    /\ Len(tasks) = 2

(* C6: add_task(t) adds one occurrence of t also when t is in the list     *)
(* already, and remove_task(t) on a list with more than one occurrence of  *)
(* t takes exactly one of them, so t is still in the list.                 *)
DuplicatesPermitted ==
    [][\A t \in Tasks :
        /\ (CallsWith("add_task", t) /\ Count(tasks, t) >= 1)
              => Count(tasks', t) = Count(tasks, t) + 1
        /\ (CallsWith("remove_task", t) /\ Count(tasks, t) > 1)
              => /\ Count(tasks', t) = Count(tasks, t) - 1
                 /\ \E k \in 1..Len(tasks') : tasks'[k] = t]_vars

(* A task added three times and removed once: two occurrences are left.    *)
DuplicateSurvivesRemove ==
    /\ Len(calls) = 4
    /\ \A i \in 1..3 : calls[i].op = "add_task" /\ calls[i].args = <<"Buy groceries">>
    /\ LastWas("remove_task", "Buy groceries")
    /\ Count(tasks, "Buy groceries") = 2

(* C7: the script, run from the empty list, has the list <<"Buy           *)
(* groceries", "Pay bills">> at its first listing and prints it so; it     *)
(* ends with the list <<"Buy groceries">>, having printed the two add      *)
(* notices, the first listing, the removal notice and the second listing   *)
(* in that order and no "Task not found" line, with no exception; and it   *)
(* does reach its end.                                                     *)
ScriptRunsToItsEnd ==
    /\ [](pc = "line26" =>
            /\ tasks = <<"Buy groceries", "Pay bills">>
            /\ calls[3].printed = <<"Todo List:", "- Buy groceries", "- Pay bills">>)
    /\ [](pc = "exit" =>
            /\ tasks = <<"Buy groceries">>
            /\ calls[5].printed = <<"Todo List:", "- Buy groceries">>
            /\ stdout = <<"Added task: Buy groceries",
                          "Added task: Pay bills",
                          "Todo List:", "- Buy groceries", "- Pay bills",
                          "Removed task: Pay bills",
                          "Todo List:", "- Buy groceries">>
            /\ exc = "none")
    /\ (pc = "line23" ~> pc = "exit")

(* The script has made its five calls and ended.                           *)
ScriptEnded == pc = "exit" /\ Len(calls) = 5

(* C8: show_tasks prints the header and then one line "- t" per element of *)
(* the list, in list order, and no other line.                             *)
ShowPrintsListInOrder ==
    [][Calls("show_tasks") =>
        /\ Len(Printed) = Len(tasks) + 1
        /\ Printed[1] = "Todo List:"
        /\ \A i \in 1..Len(tasks) : Printed[i + 1] = "- " \o tasks[i]]_vars

(* A list of three tasks, two of them equal, has just been listed.         *)
ShownThree ==
    /\ calls # <<>>
    /\ calls[Len(calls)].op = "show_tasks"
    /\ calls[Len(calls)].printed =
          <<"Todo List:", "- Call mom", "- Buy groceries", "- Call mom">>

(* C9: for every task t the list holds as many t as add_task(t) was called *)
(* minus the remove_task(t) calls that printed "Removed task"; that        *)
(* difference is never negative, the length of the list is all adds minus  *)
(* all such removes, and remove_task(t) prints "Task not found" exactly    *)
(* when the difference is zero before the call.                            *)
AddsMinusRemoves ==
    /\ [](\A t \in Tasks :
            /\ Removed(t) <= Count(Added, t)
            /\ Count(tasks, t) = Count(Added, t) - Removed(t))
    /\ [](Len(tasks) + Cardinality({i \in 1..Len(calls) :
                           /\ calls[i].op = "remove_task"
                           /\ calls[i].printed =
                                 <<"Removed task: " \o calls[i].args[1]>>})
             = Len(Added))
    /\ [][\A t \in Tasks :
            CallsWith("remove_task", t) =>
                ((Printed = <<"Task not found: " \o t>>)
                    <=> (Count(Added, t) = Removed(t)))]_vars

(* A task added twice, removed twice, and then not found.                  *)
RemovedAsOftenAsAdded ==
    /\ Len(calls) = 5
    /\ Count(Added, "Pay bills") = 2
    /\ Removed("Pay bills") = 2
    /\ LastWas("remove_task", "Pay bills")
    /\ calls[5].printed = <<"Task not found: Pay bills">>

(* C10: the list is the sequence of all tasks ever added, in the order of  *)
(* the adds, with some of them left out.                                   *)
InsertionOrderPreserved == IsSubseq(tasks, Added)

(* Three different tasks added and the middle one removed.                 *)
MiddleOneRemoved ==
    /\ Added = <<"Buy groceries", "Pay bills", "Call mom">>
    /\ Removed("Pay bills") = 1
    /\ tasks = <<"Buy groceries", "Call mom">>

===========================================================================
